---- MODULE Spec2Model ----
(***************************************************************************)
(* Model of pkg/controller/distributedrediscluster/sync_handler.go:        *)
(* the phase functions ensureCluster / validate, waitPodReady,             *)
(* waitForClusterJoin and syncCluster / scalingDown of the                 *)
(* redis-cluster-operator reconciler.                                      *)
(*                                                                         *)
(* Every call a phase makes on a collaborator is one step of the model;    *)
(* pc is the position of the reconciling execution, log the calls issued   *)
(* so far in the current invocation, err the value the phase returned.     *)
(***************************************************************************)
EXTENDS Integers, Sequences, FiniteSets, TLC

\* ------------------------------------------------------------------ bounds
MaxGroups == 3
NodesPerGroup == 2
MaxReplicas == 1
MaxFailures == 1
MaxAllocMasters == 16

Groups == 0 .. (MaxGroups - 1)
Nodes == Groups \X (1 .. NodesPerGroup)

VARIABLES
    cluster,      \* ctx.cluster: the fields of Spec and Status the phases read and write
    backupStore,  \* the RedisClusterBackup record held by crController
    backup,       \* ensureCluster's local variable backup ("nil" or a record)
    pc,           \* position of the reconciling execution
    log,          \* calls issued so far in the current invocation
    err,          \* error returned by the current invocation (NoError while running / on success)
    slots,        \* live cluster: number of slots every node holds
    member,       \* live cluster: nodes that are part of cluster membership (not forgotten)
    pool,         \* admin.Connections(): nodes with a pooled connection
    resources,    \* infrastructure: existing <<kind, group>> resources
    plan,         \* clusterCtx of the current tick (curMasters, newMasters, statefulset nodes)
    loop,         \* scalingDown's locals: i, the node index, the looked-up sts
    refused,      \* the node scalingDown last refused to retire, or NoNode
    failures,     \* number of collaborator failures injected so far
    clusterInfos, \* ctx.clusterInfos.Infos: the nodes the snapshot of the tick holds
    alloc         \* the slot ranges AllocSlots has handed out, in master order

vars == <<cluster, backupStore, backup, pc, log, err, slots, member, pool,
          resources, plan, loop, refused, failures, clusterInfos, alloc>>

ensureVars == <<backupStore, backup>>
syncVars == <<slots, member, pool, resources, plan, loop, refused>>
waitVars == <<clusterInfos, alloc>>

\* ------------------------------------------------------------ error kinds
\* The kinds of the ErrorClassifier as the source names them.
Kubernetes == "Infra"
StopRetry == "StopRetry"
Requeue == "Requeue"
Redis == "Protocol"
Cluster == "Topology"

Kinds == {Kubernetes, StopRetry, Requeue, Redis, Cluster}

\* An error value: the chain of kinds it was wrapped with (outermost last),
\* the step names attached, and whether the cause is a retryable API error.
NoError == [nil |-> TRUE, kinds |-> <<>>, steps |-> <<>>, retryable |-> FALSE]

\* An error as a collaborator outside this package returns it: no kind.
RawError(msg, retryable) ==
    [nil |-> FALSE, kinds |-> <<>>, steps |-> <<msg>>, retryable |-> retryable]

\* fmt.Errorf: a plain error, never a retryable API error.
Errorf(msg) == RawError(msg, FALSE)

\* <Kind>.Wrap(err, step): attach one kind and the step name, keep the cause.
Wrap(kind, e, step) ==
    [nil |-> FALSE, kinds |-> Append(e.kinds, kind),
     steps |-> Append(e.steps, step), retryable |-> e.retryable]

\* <Kind>.New(msg)
New(kind, msg) ==
    [nil |-> FALSE, kinds |-> <<kind>>, steps |-> <<msg>>, retryable |-> FALSE]

\* k8sutil.IsRequestRetryable: true for retryable platform API errors only.
IsRequestRetryable(e) == e.retryable

\* waiting(waiter, logger): a timeout is surfaced as a Requeue-classified error.
WaitingTimeout(name) == Wrap(Requeue, RawError("timeout", FALSE), name)

\* ------------------------------------------------------------------- calls
\* A call on a collaborator: the operation, the group ordinal and node it
\* is about (NoGroup, 0 when it has none) and its result.
NoGroup == 0 - 1
Call(op, res) == [op |-> op, g |-> NoGroup, k |-> 0, res |-> res]
GroupCall(op, g, res) == [op |-> op, g |-> g, k |-> 0, res |-> res]
NodeCall(op, g, k, res) == [op |-> op, g |-> g, k |-> k, res |-> res]

Res(ok) == IF ok THEN "ok" ELSE "error"

Issued(op) == \E j \in 1 .. Len(log) : log[j].op = op

CanFail == failures < MaxFailures

\* ---------------------------------------------------------------- validate
Images == 0 .. 2            \* 0 is the empty image string
BackupPhaseSucceeded == "Succeeded"
BackupPhases == {"Running", BackupPhaseSucceeded}

\* validate (lines 92-117).  fetch is the outcome of GetRedisClusterBackup:
\* NoError or the error it returned.  The result carries the error, the
\* cluster as validate left it and the calls validate issued.  The
\* structural validation of cluster.Validate (line 115) lives outside this
\* file and is left out.
validateResult(e, c, calls) == [err |-> e, cluster |-> c, calls |-> calls]

FetchCall(fetch) == Call("GetRedisClusterBackup", Res(fetch.nil))

\* validate without the check of line 95: a missing source is not noticed.
validateNoSourceCheck(c, store, fetch) ==
    IF c.Init = "none"
    THEN validateResult(NoError, c, <<>>)
    ELSE IF ~fetch.nil
    THEN validateResult(fetch, c, <<FetchCall(fetch)>>)
    ELSE IF store.Phase # BackupPhaseSucceeded
    THEN validateResult(Errorf("backup is still running"), c, <<FetchCall(fetch)>>)
    ELSE validateResult(NoError,
          [c EXCEPT
              !.Image = IF c.Image = 0 THEN store.ClusterImage ELSE c.Image,
              !.MasterSize = store.MasterSize,
              !.ClusterReplicas = IF c.RestoreSucceeded <= 0
                                  THEN 0 ELSE store.ClusterReplicas],
          <<FetchCall(fetch)>>)

\* validate without the condition of line 105: the image is always taken
\* from the backup.
validateImageOverwritten(c, store, fetch) ==
    IF c.Init = "none"
    THEN validateResult(NoError, c, <<>>)
    ELSE IF c.Init = "nosource"
    THEN validateResult(Errorf("backupSource is required"), c, <<>>)
    ELSE IF ~fetch.nil
    THEN validateResult(fetch, c, <<FetchCall(fetch)>>)
    ELSE IF store.Phase # BackupPhaseSucceeded
    THEN validateResult(Errorf("backup is still running"), c, <<FetchCall(fetch)>>)
    ELSE validateResult(NoError,
          [c EXCEPT
              !.Image = store.ClusterImage,
              !.MasterSize = store.MasterSize,
              !.ClusterReplicas = IF c.RestoreSucceeded <= 0
                                  THEN 0 ELSE store.ClusterReplicas],
          <<FetchCall(fetch)>>)

validate(c, store, fetch) ==
    IF c.Init = "none"
    THEN validateResult(NoError, c, <<>>)
    ELSE IF c.Init = "nosource"
    THEN validateResult(Errorf("backupSource is required"), c, <<>>)
    ELSE IF ~fetch.nil
    THEN validateResult(fetch, c, <<FetchCall(fetch)>>)
    ELSE IF store.Phase # BackupPhaseSucceeded
    THEN validateResult(Errorf("backup is still running"), c, <<FetchCall(fetch)>>)
    ELSE validateResult(NoError,
          [c EXCEPT
              !.Image = IF c.Image = 0 THEN store.ClusterImage ELSE c.Image,
              !.MasterSize = store.MasterSize,
              !.ClusterReplicas = IF c.RestoreSucceeded <= 0
                                  THEN 0 ELSE store.ClusterReplicas],
          <<FetchCall(fetch)>>)

\* The outcomes GetRedisClusterBackup can have: success, or an API error
\* that is retryable or not.
FetchOutcomes ==
    {NoError} \cup
    (IF CanFail THEN {RawError("GetRedisClusterBackup", r) : r \in BOOLEAN} ELSE {})

Failed(e) == IF e.nil THEN 0 ELSE 1

\* ----------------------------------------------------------- ensureCluster
\* A reconcile tick enters ensureCluster.
StartEnsure ==
    /\ pc \in {"idle", "ensureReturned"}
    /\ pc' = "validate"
    /\ log' = <<>>
    /\ err' = NoError
    /\ backup' = "nil"
    /\ UNCHANGED <<cluster, backupStore, failures>>
    /\ UNCHANGED syncVars
    /\ UNCHANGED waitVars

\* lines 33-38: validate and the classification of its error.
ValidateStep ==
    /\ pc = "validate"
    /\ \E fetch \in FetchOutcomes :
         LET v == validate(cluster, backupStore, fetch) IN
         /\ log' = log \o v.calls
         /\ cluster' = v.cluster
         /\ failures' = failures + (IF cluster.Init = "source" THEN Failed(fetch) ELSE 0)
         /\ IF ~v.err.nil
            THEN /\ err' = IF IsRequestRetryable(v.err)
                           THEN Wrap(Kubernetes, v.err, "Validate")
                           ELSE Wrap(StopRetry, v.err, "stop retry")
                 /\ pc' = "ensureReturned"
            ELSE /\ err' = NoError
                 /\ pc' = "fetchBackup"
    /\ UNCHANGED <<backupStore, backup>>
    /\ UNCHANGED syncVars
    /\ UNCHANGED waitVars

\* lines 42-47: the second fetch of the backup; its error is returned as is.
GetRedisClusterBackup ==
    /\ pc = "fetchBackup"
    /\ IF cluster.Init = "none"
       THEN /\ pc' = "configMap"
            /\ UNCHANGED <<backup, log, err, failures>>
       ELSE \E fetch \in FetchOutcomes :
            /\ log' = Append(log, FetchCall(fetch))
            /\ failures' = failures + Failed(fetch)
            /\ IF ~fetch.nil
               THEN /\ err' = fetch
                    /\ pc' = "ensureReturned"
                    /\ UNCHANGED backup
               ELSE /\ backup' = backupStore
                    /\ pc' = "configMap"
                    /\ UNCHANGED err
    /\ UNCHANGED <<cluster, backupStore>>
    /\ UNCHANGED syncVars
    /\ UNCHANGED waitVars

\* An ensure step whose failure is wrapped as an infrastructure error
\* (lines 48-50, 66-68, 69-71).
EnsureStep(at, op, next) ==
    /\ pc = at
    /\ \E ok \in (IF CanFail THEN BOOLEAN ELSE {TRUE}) :
         /\ log' = Append(log, Call(op, Res(ok)))
         /\ IF ok
            THEN /\ pc' = next
                 /\ UNCHANGED <<err, failures>>
            ELSE /\ err' = Wrap(Kubernetes, RawError(op, TRUE), op)
                 /\ pc' = "ensureReturned"
                 /\ failures' = failures + 1
    /\ UNCHANGED <<cluster, backupStore, backup>>
    /\ UNCHANGED syncVars
    /\ UNCHANGED waitVars

EnsureRedisConfigMap == EnsureStep("configMap", "EnsureRedisConfigMap", "statefulsets")

\* lines 51-54: the compute-unit step reports whether it applied an update.
EnsureRedisStatefulsets ==
    /\ pc = "statefulsets"
    /\ \E outcome \in {"ok", "updated"} \cup (IF CanFail THEN {"error"} ELSE {}) :
         /\ log' = Append(log, Call("EnsureRedisStatefulsets", outcome))
         /\ CASE outcome = "error" ->
                /\ err' = Wrap(Kubernetes, RawError("EnsureRedisStatefulsets", TRUE),
                               "EnsureRedisStatefulSets")
                /\ pc' = "ensureReturned"
                /\ failures' = failures + 1
           [] outcome = "updated" ->
                /\ pc' = "waitUpdating"
                /\ UNCHANGED <<err, failures>>
           [] outcome = "ok" ->
                /\ pc' = "headlessSvcs"
                /\ UNCHANGED <<err, failures>>
    /\ UNCHANGED <<cluster, backupStore, backup>>
    /\ UNCHANGED syncVars
    /\ UNCHANGED waitVars

\* The wait with its timeout logged and not returned.
WaitStatefulSetUpdatingLogged ==
    /\ pc = "waitUpdating"
    /\ \E ok \in (IF CanFail THEN BOOLEAN ELSE {TRUE}) :
         /\ log' = Append(log, Call("waitStatefulSetUpdating", Res(ok)))
         /\ failures' = failures + (IF ok THEN 0 ELSE 1)
    /\ pc' = "headlessSvcs"
    /\ UNCHANGED <<cluster, backupStore, backup, err>>
    /\ UNCHANGED syncVars
    /\ UNCHANGED waitVars

\* lines 55-64: wait for the update to propagate; a timeout is returned as is.
WaitStatefulSetUpdating ==
    /\ pc = "waitUpdating"
    /\ \E ok \in (IF CanFail THEN BOOLEAN ELSE {TRUE}) :
         /\ log' = Append(log, Call("waitStatefulSetUpdating", Res(ok)))
         /\ IF ok
            THEN /\ pc' = "headlessSvcs"
                 /\ UNCHANGED <<err, failures>>
            ELSE /\ err' = WaitingTimeout("waitStatefulSetUpdating")
                 /\ pc' = "ensureReturned"
                 /\ failures' = failures + 1
    /\ UNCHANGED <<cluster, backupStore, backup>>
    /\ UNCHANGED syncVars
    /\ UNCHANGED waitVars

EnsureRedisHeadLessSvcs == EnsureStep("headlessSvcs", "EnsureRedisHeadLessSvcs", "svc")

EnsureRedisSvc == EnsureStep("svc", "EnsureRedisSvc", "osmSecret")

\* lines 72-78: the credential step; retryable errors are infrastructure
\* errors, the others stop the retries.
EnsureRedisOSMSecret ==
    /\ pc = "osmSecret"
    /\ \E e \in {NoError} \cup
                (IF CanFail THEN {RawError("EnsureRedisOSMSecret", r) : r \in BOOLEAN} ELSE {}) :
         /\ log' = Append(log, Call("EnsureRedisOSMSecret", Res(e.nil)))
         /\ failures' = failures + Failed(e)
         /\ pc' = "ensureReturned"
         /\ err' = IF e.nil THEN NoError
                   ELSE IF IsRequestRetryable(e)
                   THEN Wrap(Kubernetes, e, "EnsureRedisOSMSecret")
                   ELSE Wrap(StopRetry, e, "stop retry")
    /\ UNCHANGED <<cluster, backupStore, backup>>
    /\ UNCHANGED syncVars
    /\ UNCHANGED waitVars

\* The backup job finishes (the backup controller, outside this package).
BackupSucceeds ==
    /\ pc \in {"idle", "ensureReturned"}
    /\ backupStore.Phase # BackupPhaseSucceeded
    /\ backupStore' = [backupStore EXCEPT !.Phase = BackupPhaseSucceeded]
    /\ UNCHANGED <<cluster, backup, pc, log, err, failures>>
    /\ UNCHANGED syncVars
    /\ UNCHANGED waitVars

NoNode == <<NoGroup, 0>>

NoPlan == [cur |-> 0, new |-> 0, expect |-> 0, rf |-> 0, replicas |-> 0,
           branch |-> "unset", nodes |-> [g \in Groups |-> <<>>]]
NoLoop == [idx |-> 1, k |-> 1]

ClusterValues ==
    [Init : {"none", "nosource", "source"},
     Image : Images,
     MasterSize : 1 .. MaxGroups,
     ClusterReplicas : 0 .. MaxReplicas,
     RestoreSucceeded : 0 .. 1,
     MinReplicationFactor : {0}]

BackupValues ==
    [Phase : BackupPhases,
     ClusterImage : {1},
     MasterSize : {MaxGroups},
     ClusterReplicas : {MaxReplicas}]

InitEnsure ==
    /\ cluster \in ClusterValues
    /\ backupStore \in BackupValues
    /\ backup = "nil"
    /\ pc = "idle"
    /\ log = <<>>
    /\ err = NoError
    /\ slots = [n \in Nodes |-> 0]
    /\ member = [n \in Nodes |-> FALSE]
    /\ pool = {}
    /\ resources = {}
    /\ plan = NoPlan
    /\ loop = NoLoop
    /\ refused = NoNode
    /\ failures = 0
    /\ clusterInfos = {}
    /\ alloc = <<>>

NextEnsure ==
    \/ StartEnsure
    \/ ValidateStep
    \/ GetRedisClusterBackup
    \/ EnsureRedisConfigMap
    \/ EnsureRedisStatefulsets
    \/ WaitStatefulSetUpdating
    \/ EnsureRedisHeadLessSvcs
    \/ EnsureRedisSvc
    \/ EnsureRedisOSMSecret
    \/ BackupSucceeds

SpecEnsure == InitEnsure /\ [][NextEnsure]_vars

\* ------------------------------------------------- ClusterTopologyContext
\* GetStatefulsetNodes: per group ordinal, the nodes of the snapshot in list
\* order, each with its identity and the number of slots it holds.
GetStatefulsetNodes ==
    [g \in Groups |->
        SelectSeq([k \in 1 .. NodesPerGroup |-> [ID |-> <<g, k>>, Slots |-> slots[<<g, k>>]]],
                  LAMBDA node : member[node.ID])]

\* GetCurrentMasters: the nodes of the snapshot that own slots.
GetCurrentMasters == {n \in Nodes : member[n] /\ slots[n] > 0}

\* DispatchMasters fails when a group of the target set has no node.
DispatchMastersFails(stsNodes, expectMasterNum) ==
    \E g \in Groups : g < expectMasterNum /\ stsNodes[g] = <<>>

\* GetNewMasters: one master per group ordinal below the target, the node
\* that already owns slots when there is one, the first node otherwise.
NewMasterOf(stsNodes, g) ==
    LET owners == {k \in 1 .. Len(stsNodes[g]) : stsNodes[g][k].Slots > 0}
    IN  IF owners = {} THEN stsNodes[g][1].ID
        ELSE stsNodes[g][CHOOSE k \in owners : \A o \in owners : k <= o].ID

GetNewMasters(stsNodes, expectMasterNum) ==
    {NewMasterOf(stsNodes, g) : g \in {o \in Groups : o < expectMasterNum}}

\* Slots moved onto the new masters: every new master owns slots afterwards,
\* every other former owner is empty unless it is in left.
AfterMigration(owned, newMasters, left) ==
    [n \in Nodes |-> IF n \in newMasters THEN (IF owned[n] > 0 THEN owned[n] ELSE 1)
                     ELSE IF n \in left THEN owned[n]
                     ELSE 0]

MigrateSnapshot(stsNodes, newMasters, left) ==
    [g \in Groups |->
        [k \in 1 .. Len(stsNodes[g]) |->
            [stsNodes[g][k] EXCEPT !.Slots =
                IF stsNodes[g][k].ID \in newMasters
                THEN (IF @ > 0 THEN @ ELSE 1)
                ELSE IF stsNodes[g][k].ID \in left THEN @ ELSE 0]]]

\* ------------------------------------------------------------- syncCluster
\* lines 162, 175, 188, 197: the branch a tick takes.
\* The branch with the scale-up test admitting an unchanged master count.
BranchUpOnEqual(cur, new, c) ==
    IF cur = 0 THEN "create"
    ELSE IF new >= cur THEN "scaleUp"
    ELSE IF c.MinReplicationFactor < c.ClusterReplicas THEN "scaleSlave"
    ELSE IF cur > c.MasterSize THEN "scaleDown"
    ELSE "none"

\* The branch as the priority table words it: replicas only when the
\* master count is unchanged.
BranchPerTable(cur, new, c) ==
    IF cur = 0 THEN "create"
    ELSE IF new > cur THEN "scaleUp"
    ELSE IF new = cur /\ c.MinReplicationFactor < c.ClusterReplicas THEN "scaleSlave"
    ELSE IF cur > c.MasterSize THEN "scaleDown"
    ELSE "none"

\* The branch with the scale-down test admitting an unchanged master count.
BranchDownOnEqual(cur, new, c) ==
    IF cur = 0 THEN "create"
    ELSE IF new > cur THEN "scaleUp"
    ELSE IF c.MinReplicationFactor < c.ClusterReplicas THEN "scaleSlave"
    ELSE IF cur >= c.MasterSize THEN "scaleDown"
    ELSE "none"

Branch(cur, new, c) ==
    IF cur = 0 THEN "create"
    ELSE IF new > cur THEN "scaleUp"
    ELSE IF c.MinReplicationFactor < c.ClusterReplicas THEN "scaleSlave"
    ELSE IF cur > c.MasterSize THEN "scaleDown"
    ELSE "none"

FirstStep(branch) ==
    CASE branch \in {"create", "scaleUp", "scaleSlave"} -> "placeSlaves"
      [] branch = "scaleDown" -> "dispatchSlots"
      [] OTHER -> "syncReturned"

\* The work queue hands the cluster to the reconciler: a tick begins.
StartSync ==
    /\ pc \in {"idle", "syncReturned"}
    /\ pc' = "syncCluster"
    /\ log' = <<>>
    /\ err' = NoError
    /\ plan' = NoPlan
    /\ loop' = NoLoop
    /\ UNCHANGED <<cluster, slots, member, pool, resources, refused, failures>>
    /\ UNCHANGED ensureVars
    /\ UNCHANGED waitVars

\* lines 146-161 and the branch conditions: build the plan of the tick.
SyncCluster ==
    /\ pc = "syncCluster"
    /\ \E ok \in (IF CanFail THEN BOOLEAN ELSE {TRUE}) :
         LET stsNodes == GetStatefulsetNodes
             cur == Cardinality(GetCurrentMasters)
         IN
         IF ~ok
         THEN /\ log' = <<Call("newRedisCluster", "error")>>
              /\ err' = Wrap(Cluster, RawError("newRedisCluster", FALSE), "newRedisCluster")
              /\ pc' = "syncReturned"
              /\ failures' = failures + 1
              /\ plan' = NoPlan
         ELSE IF DispatchMastersFails(stsNodes, cluster.MasterSize)
         THEN /\ log' = <<Call("newRedisCluster", "ok"), Call("DispatchMasters", "error")>>
              /\ err' = Wrap(Cluster, RawError("missing statefulset", FALSE), "DispatchMasters")
              /\ pc' = "syncReturned"
              /\ plan' = NoPlan
              /\ UNCHANGED failures
         ELSE LET new == Cardinality(GetNewMasters(stsNodes, cluster.MasterSize))
                  branch == Branch(cur, new, cluster)
              IN /\ log' = <<Call("newRedisCluster", "ok"), Call("DispatchMasters", "ok")>>
                 /\ err' = NoError
                 /\ plan' = [cur |-> cur, new |-> new, expect |-> cluster.MasterSize,
                             rf |-> cluster.MinReplicationFactor,
                             replicas |-> cluster.ClusterReplicas,
                             branch |-> branch, nodes |-> stsNodes]
                 /\ pc' = FirstStep(branch)
                 /\ UNCHANGED failures
    /\ loop' = NoLoop
    /\ UNCHANGED <<cluster, slots, member, pool, resources, refused>>
    /\ UNCHANGED ensureVars
    /\ UNCHANGED waitVars

\* A step of the plan whose failure is wrapped as a topology error.
TopologyReturn(op, ok) ==
    /\ log' = Append(log, Call(op, Res(ok)))
    /\ IF ok
       THEN UNCHANGED <<err, failures>>
       ELSE /\ err' = Wrap(Cluster, RawError(op, FALSE), op)
            /\ failures' = failures + 1

\* lines 164, 177, 190
PlaceSlaves ==
    /\ pc = "placeSlaves"
    /\ \E ok \in (IF CanFail THEN BOOLEAN ELSE {TRUE}) :
         /\ TopologyReturn("PlaceSlaves", ok)
         /\ pc' = IF ok THEN "attachSlaves" ELSE "syncReturned"
    /\ UNCHANGED <<cluster, slots, member, pool, resources, plan, loop, refused>>
    /\ UNCHANGED ensureVars
    /\ UNCHANGED waitVars

\* lines 168, 181, 194
AttachingSlavesToMaster ==
    /\ pc = "attachSlaves"
    /\ \E ok \in (IF CanFail THEN BOOLEAN ELSE {TRUE}) :
         /\ TopologyReturn("AttachingSlavesToMaster", ok)
         /\ pc' = IF ~ok THEN "syncReturned"
                  ELSE CASE plan.branch = "create" -> "allocSlots"
                         [] plan.branch = "scaleUp" -> "rebalance"
                         [] OTHER -> "syncReturned"
    /\ UNCHANGED <<cluster, slots, member, pool, resources, plan, loop, refused>>
    /\ UNCHANGED ensureVars
    /\ UNCHANGED waitVars

\* A slot step of the bootstrap and scale-up branches (lines 172, 185): on
\* success the new masters own the slot space.
SlotStep(at, op) ==
    /\ pc = at
    /\ \E ok \in (IF CanFail THEN BOOLEAN ELSE {TRUE}) :
         /\ TopologyReturn(op, ok)
         /\ slots' = IF ok
                     THEN AfterMigration(slots, GetNewMasters(plan.nodes, cluster.MasterSize), {})
                     ELSE slots
    /\ pc' = "syncReturned"
    /\ UNCHANGED <<cluster, member, pool, resources, plan, loop, refused>>
    /\ UNCHANGED ensureVars
    /\ UNCHANGED waitVars

AllocSlots == SlotStep("allocSlots", "AllocSlots")

RebalancedCluster == SlotStep("rebalance", "RebalancedCluster")

\* lines 197-204 with the error of the redistribution logged instead of
\* returned: scalingDown is called all the same.
DispatchSlotToNewMastersLogged ==
    /\ pc = "dispatchSlots"
    /\ LET newMasters == GetNewMasters(plan.nodes, cluster.MasterSize)
           retiring == GetCurrentMasters \ newMasters
       IN \E ok \in (IF CanFail THEN BOOLEAN ELSE {TRUE}) :
          \E left \in (IF CanFail /\ ok THEN SUBSET retiring ELSE {{}}) :
            /\ log' = Append(log, Call("DispatchSlotToNewMasters", Res(ok)))
            /\ IF ok
               THEN /\ slots' = AfterMigration(slots, newMasters, left)
                    /\ plan' = [plan EXCEPT !.nodes = MigrateSnapshot(@, newMasters, left)]
                    /\ failures' = failures + (IF left = {} THEN 0 ELSE 1)
               ELSE /\ failures' = failures + 1
                    /\ UNCHANGED <<slots, plan>>
            /\ pc' = "scalingDown"
            /\ UNCHANGED err
    /\ UNCHANGED <<cluster, member, pool, resources, loop, refused>>
    /\ UNCHANGED ensureVars
    /\ UNCHANGED waitVars

\* lines 197-204: slots are moved off the masters being retired; the error
\* of the redistribution is returned as is.  A redistribution may leave a
\* retiring master with slots.
DispatchSlotToNewMasters ==
    /\ pc = "dispatchSlots"
    /\ LET newMasters == GetNewMasters(plan.nodes, cluster.MasterSize)
           retiring == GetCurrentMasters \ newMasters
       IN \E ok \in (IF CanFail THEN BOOLEAN ELSE {TRUE}) :
          \E left \in (IF CanFail /\ ok THEN SUBSET retiring ELSE {{}}) :
            /\ log' = Append(log, Call("DispatchSlotToNewMasters", Res(ok)))
            /\ IF ok
               THEN /\ slots' = AfterMigration(slots, newMasters, left)
                    /\ plan' = [plan EXCEPT !.nodes = MigrateSnapshot(@, newMasters, left)]
                    /\ failures' = failures + (IF left = {} THEN 0 ELSE 1)
                    /\ pc' = "scalingDown"
                    /\ UNCHANGED err
               ELSE /\ err' = RawError("DispatchSlotToNewMasters", FALSE)
                    /\ failures' = failures + 1
                    /\ pc' = "syncReturned"
                    /\ UNCHANGED <<slots, plan>>
    /\ UNCHANGED <<cluster, member, pool, resources, loop, refused>>
    /\ UNCHANGED ensureVars
    /\ UNCHANGED waitVars

\* ------------------------------------------------------------- scalingDown
\* lines 216 and 222: the group ordinals a scale-down visits, in visiting
\* order: currentMasterNum - 1 down to expectMasterNum.
RetireOrderAscending(currentMasterNum, expectMasterNum) ==
    [j \in 1 .. (IF currentMasterNum > expectMasterNum
                 THEN currentMasterNum - expectMasterNum ELSE 0) |->
        expectMasterNum + j - 1]

\* The loops of lines 216 and 222 with the bound i >= expectMasterNum - 1:
\* the group just below the target is visited too.
RetireOrderBelowTarget(currentMasterNum, expectMasterNum) ==
    [j \in 1 .. (IF currentMasterNum > expectMasterNum
                 THEN currentMasterNum - expectMasterNum + 1 ELSE 0) |->
        currentMasterNum - j]

RetireOrder(currentMasterNum, expectMasterNum) ==
    [j \in 1 .. (IF currentMasterNum > expectMasterNum
                 THEN currentMasterNum - expectMasterNum ELSE 0) |->
        currentMasterNum - j]

\* The ordinals of the current invocation and the one being processed.
Order == RetireOrder(plan.cur, cluster.MasterSize)
CurrentOrdinal == Order[loop.idx]

\* lines 216-221: the Remove calls of pass 1, group by group.
RECURSIVE RemoveCalls(_, _)
RemoveCalls(order, stsNodes) ==
    IF order = <<>> THEN <<>>
    ELSE [k \in 1 .. Len(stsNodes[Head(order)]) |->
             NodeCall("Connections.Remove", Head(order),
                      stsNodes[Head(order)][k].ID[2], "ok")]
         \o RemoveCalls(Tail(order), stsNodes)

RemovedNodes(calls) == {<<calls[j].g, calls[j].k>> : j \in 1 .. Len(calls)}

\* lines 205, 212-221: scalingDown is entered and pass 1 removes the
\* connection of every node of every retiring group.
ScalingDownPass1OffByOne ==
    /\ pc = "scalingDown"
    /\ LET calls == RemoveCalls(SubSeq(Order, 1, Len(Order) - 1), plan.nodes)
       IN /\ log' = log \o calls
          /\ pool' = pool \ RemovedNodes(calls)
    /\ loop' = NoLoop
    /\ pc' = IF Order = <<>> THEN "syncReturned" ELSE "getStatefulSet"
    /\ UNCHANGED <<cluster, err, slots, member, resources, plan, refused, failures>>
    /\ UNCHANGED ensureVars
    /\ UNCHANGED waitVars

ScalingDownPass1 ==
    /\ pc = "scalingDown"
    /\ LET calls == RemoveCalls(Order, plan.nodes)
       IN /\ log' = log \o calls
          /\ pool' = pool \ RemovedNodes(calls)
    /\ loop' = NoLoop
    /\ pc' = IF Order = <<>> THEN "syncReturned" ELSE "getStatefulSet"
    /\ UNCHANGED <<cluster, err, slots, member, resources, plan, refused, failures>>
    /\ UNCHANGED ensureVars
    /\ UNCHANGED waitVars

\* lines 223-228: look the group's compute-unit resource up.
GetStatefulSet ==
    /\ pc = "getStatefulSet"
    /\ LET i == CurrentOrdinal
           exists == <<"sts", i>> \in resources
       IN \E ok \in (IF ~exists THEN {FALSE} ELSE IF CanFail THEN BOOLEAN ELSE {TRUE}) :
            /\ log' = Append(log, GroupCall("GetStatefulSet", i, Res(ok)))
            /\ IF ok
               THEN /\ pc' = IF plan.nodes[i] = <<>> THEN "deleteStatefulSet" ELSE "forgetNode"
                    /\ UNCHANGED <<err, failures>>
               ELSE /\ err' = Wrap(Kubernetes, RawError("GetStatefulSet", exists), "GetStatefulSet")
                    /\ pc' = "syncReturned"
                    /\ failures' = failures + (IF exists THEN 1 ELSE 0)
    /\ loop' = [loop EXCEPT !.k = 1]
    /\ UNCHANGED <<cluster, slots, member, pool, resources, plan, refused>>
    /\ UNCHANGED ensureVars
    /\ UNCHANGED waitVars

\* lines 229-237 with the error of ForgetNode logged instead of returned:
\* the loop goes on to the next node and to the deletions.
ForgetNodeLogged ==
    /\ pc = "forgetNode"
    /\ LET i == CurrentOrdinal
           node == plan.nodes[i][loop.k]
       IN IF node.Slots > 0
          THEN /\ err' = New(Redis, "node is not empty! Reshard data away and try again")
               /\ refused' = node.ID
               /\ pc' = "syncReturned"
               /\ UNCHANGED <<log, member, loop, failures>>
          ELSE \E ok \in (IF CanFail THEN BOOLEAN ELSE {TRUE}) :
               /\ log' = Append(log, NodeCall("ForgetNode", i, node.ID[2], Res(ok)))
               /\ member' = IF ok THEN [member EXCEPT ![node.ID] = FALSE] ELSE member
               /\ failures' = failures + (IF ok THEN 0 ELSE 1)
               /\ loop' = [loop EXCEPT !.k = @ + 1]
               /\ pc' = IF loop.k = Len(plan.nodes[i])
                        THEN "deleteStatefulSet" ELSE "forgetNode"
               /\ UNCHANGED <<err, refused>>
    /\ UNCHANGED <<cluster, slots, pool, resources, plan>>
    /\ UNCHANGED ensureVars
    /\ UNCHANGED waitVars

\* lines 229-237: one iteration of the loop over the group's nodes: refuse
\* a node that holds slots, forget an empty one.
ForgetNode ==
    /\ pc = "forgetNode"
    /\ LET i == CurrentOrdinal
           node == plan.nodes[i][loop.k]
       IN IF node.Slots > 0
          THEN /\ err' = New(Redis, "node is not empty! Reshard data away and try again")
               /\ refused' = node.ID
               /\ pc' = "syncReturned"
               /\ UNCHANGED <<log, member, loop, failures>>
          ELSE \E ok \in (IF CanFail THEN BOOLEAN ELSE {TRUE}) :
               /\ log' = Append(log, NodeCall("ForgetNode", i, node.ID[2], Res(ok)))
               /\ IF ok
                  THEN /\ member' = [member EXCEPT ![node.ID] = FALSE]
                       /\ loop' = [loop EXCEPT !.k = @ + 1]
                       /\ pc' = IF loop.k = Len(plan.nodes[i])
                                THEN "deleteStatefulSet" ELSE "forgetNode"
                       /\ UNCHANGED <<err, failures>>
                  ELSE /\ err' = Wrap(Redis, RawError("ForgetNode", FALSE), "ForgetNode")
                       /\ pc' = "syncReturned"
                       /\ failures' = failures + 1
                       /\ UNCHANGED <<member, loop>>
               /\ UNCHANGED refused
    /\ UNCHANGED <<cluster, slots, pool, resources, plan>>
    /\ UNCHANGED ensureVars
    /\ UNCHANGED waitVars

\* A deletion of lines 239-251 whose failure is returned instead of logged.
DeleteStepEscalated(at, op, kind, next) ==
    /\ pc = at
    /\ \E ok \in (IF CanFail THEN BOOLEAN ELSE {TRUE}) :
         /\ log' = Append(log, GroupCall(op, CurrentOrdinal, Res(ok)))
         /\ resources' = IF ok THEN resources \ {<<kind, CurrentOrdinal>>} ELSE resources
         /\ failures' = failures + (IF ok THEN 0 ELSE 1)
         /\ err' = IF ok THEN err ELSE Wrap(Kubernetes, RawError(op, FALSE), op)
         /\ pc' = IF ok THEN next ELSE "syncReturned"
    /\ UNCHANGED <<cluster, slots, member, pool, plan, loop, refused>>
    /\ UNCHANGED ensureVars
    /\ UNCHANGED waitVars

\* One deletion of lines 239-251: a failure is logged and the next
\* statement runs.
DeleteStep(at, op, kind, next) ==
    /\ pc = at
    /\ \E ok \in (IF CanFail THEN BOOLEAN ELSE {TRUE}) :
         /\ log' = Append(log, GroupCall(op, CurrentOrdinal, Res(ok)))
         /\ resources' = IF ok THEN resources \ {<<kind, CurrentOrdinal>>} ELSE resources
         /\ failures' = failures + (IF ok THEN 0 ELSE 1)
    /\ pc' = next
    /\ UNCHANGED <<cluster, err, slots, member, pool, plan, loop, refused>>
    /\ UNCHANGED ensureVars
    /\ UNCHANGED waitVars

DeleteStatefulSetByName ==
    DeleteStep("deleteStatefulSet", "DeleteStatefulSetByName", "sts", "deleteService")

DeleteServiceByName ==
    DeleteStep("deleteService", "DeleteServiceByName", "svc", "deletePdb")

DeletePodDisruptionBudgetByName ==
    DeleteStep("deletePdb", "DeletePodDisruptionBudgetByName", "pdb", "deletePvc")

DeletePvcByLabels ==
    DeleteStep("deletePvc", "DeletePvcByLabels", "pvc", "waitPodTerminating")

\* lines 252-266: wait for the group's pods to terminate (a timeout is
\* logged), then go on with the next ordinal or return.
WaitPodTerminating ==
    /\ pc = "waitPodTerminating"
    /\ \E ok \in (IF CanFail THEN BOOLEAN ELSE {TRUE}) :
         /\ log' = Append(log, GroupCall("waitPodTerminating", CurrentOrdinal, Res(ok)))
         /\ failures' = failures + (IF ok THEN 0 ELSE 1)
    /\ loop' = [idx |-> loop.idx + 1, k |-> 1]
    /\ pc' = IF loop.idx < Len(Order) THEN "getStatefulSet" ELSE "syncReturned"
    /\ UNCHANGED <<cluster, err, slots, member, pool, resources, plan, refused>>
    /\ UNCHANGED ensureVars
    /\ UNCHANGED waitVars

\* ------------------------------------------------------------- environment
\* The operator reshards the data of the refused node away, out of band.
EmptyNode ==
    /\ pc = "syncReturned"
    /\ refused # NoNode
    /\ slots[refused] > 0
    /\ slots' = [slots EXCEPT ![refused] = 0]
    /\ UNCHANGED <<cluster, pc, log, err, member, pool, resources, plan, loop, refused, failures>>
    /\ UNCHANGED ensureVars
    /\ UNCHANGED waitVars

\* The status is refreshed once the replicas of a tick are attached.
UpdateStatus ==
    /\ pc = "syncReturned"
    /\ \E j \in 1 .. Len(log) : log[j].op = "AttachingSlavesToMaster" /\ log[j].res = "ok"
    /\ cluster.MinReplicationFactor < cluster.ClusterReplicas
    /\ cluster' = [cluster EXCEPT !.MinReplicationFactor = cluster.ClusterReplicas]
    /\ UNCHANGED <<pc, log, err, slots, member, pool, resources, plan, loop, refused, failures>>
    /\ UNCHANGED ensureVars
    /\ UNCHANGED waitVars

\* ----------------------------------------------------------- specification
ResourceKinds == {"sts", "svc", "pdb", "pvc"}

\* A cluster of ng groups of which the first h have a master that owns
\* slots, at any position of its group's node list.
Init ==
    /\ \E ng \in 1 .. MaxGroups :
       \E h \in 0 .. ng :
       \E owner \in [0 .. (h - 1) -> 1 .. NodesPerGroup] :
         /\ member = [n \in Nodes |-> n[1] < ng]
         /\ slots = [n \in Nodes |-> IF n[1] < h /\ owner[n[1]] = n[2] THEN 1 ELSE 0]
         /\ pool = {n \in Nodes : n[1] < ng}
         /\ resources = ResourceKinds \X (0 .. (ng - 1))
         /\ cluster \in [Init : {"none"}, Image : {1}, MasterSize : 1 .. ng,
                         ClusterReplicas : 0 .. MaxReplicas, RestoreSucceeded : {0},
                         MinReplicationFactor : 0 .. MaxReplicas]
    /\ backupStore = [Phase |-> BackupPhaseSucceeded, ClusterImage |-> 1,
                      MasterSize |-> MaxGroups, ClusterReplicas |-> MaxReplicas]
    /\ backup = "nil"
    /\ pc = "idle"
    /\ log = <<>>
    /\ err = NoError
    /\ plan = NoPlan
    /\ loop = NoLoop
    /\ refused = NoNode
    /\ failures = 0
    /\ clusterInfos = {}
    /\ alloc = <<>>

Tick ==
    \/ StartSync
    \/ SyncCluster
    \/ PlaceSlaves
    \/ AttachingSlavesToMaster
    \/ AllocSlots
    \/ RebalancedCluster
    \/ DispatchSlotToNewMasters
    \/ ScalingDownPass1
    \/ GetStatefulSet
    \/ ForgetNode
    \/ DeleteStatefulSetByName
    \/ DeleteServiceByName
    \/ DeletePodDisruptionBudgetByName
    \/ DeletePvcByLabels
    \/ WaitPodTerminating

Next ==
    \/ Tick
    \/ EmptyNode
    \/ UpdateStatus

Spec == Init /\ [][Next]_vars

\* The work queue keeps running ticks and the status keeps being refreshed.
FairSpec == Spec /\ WF_vars(Tick) /\ WF_vars(UpdateStatus)

\* ------------------------------------------ waitPodReady, waitForClusterJoin
WaitReturned == {"readyReturned", "joinReturned", "joinPanicked"}

\* The reconciler calls waitPodReady (line 81).
StartWaitPodReady ==
    /\ pc \in {"idle"} \cup WaitReturned
    /\ pc' = "fixTerminatingPods"
    /\ log' = <<>>
    /\ err' = NoError
    /\ UNCHANGED <<cluster, failures>>
    /\ UNCHANGED ensureVars
    /\ UNCHANGED syncVars
    /\ UNCHANGED waitVars

\* lines 82-84 with the failure of the healer logged instead of returned.
FixTerminatingPodsLogged ==
    /\ pc = "fixTerminatingPods"
    /\ \E ok \in BOOLEAN :
         /\ log' = Append(log, Call("FixTerminatingPods", Res(ok)))
         /\ pc' = "checkRedisNodeNum"
         /\ UNCHANGED err
    /\ UNCHANGED <<cluster, failures>>
    /\ UNCHANGED ensureVars
    /\ UNCHANGED syncVars
    /\ UNCHANGED waitVars

\* lines 82-84: the healer; its error is wrapped as an infrastructure error.
FixTerminatingPods ==
    /\ pc = "fixTerminatingPods"
    /\ \E ok \in BOOLEAN :
         /\ log' = Append(log, Call("FixTerminatingPods", Res(ok)))
         /\ IF ok
            THEN /\ pc' = "checkRedisNodeNum"
                 /\ UNCHANGED err
            ELSE /\ err' = Wrap(Kubernetes, RawError("FixTerminatingPods", FALSE),
                                "FixTerminatingPods")
                 /\ pc' = "readyReturned"
    /\ UNCHANGED <<cluster, failures>>
    /\ UNCHANGED ensureVars
    /\ UNCHANGED syncVars
    /\ UNCHANGED waitVars

\* lines 85-89: the checker; its error is wrapped as a requeue signal.
CheckRedisNodeNum ==
    /\ pc = "checkRedisNodeNum"
    /\ \E ok \in BOOLEAN :
         /\ log' = Append(log, Call("CheckRedisNodeNum", Res(ok)))
         /\ err' = IF ok THEN err
                   ELSE Wrap(Requeue, RawError("CheckRedisNodeNum", FALSE),
                             "CheckRedisNodeNum")
    /\ pc' = "readyReturned"
    /\ UNCHANGED <<cluster, failures>>
    /\ UNCHANGED ensureVars
    /\ UNCHANGED syncVars
    /\ UNCHANGED waitVars

\* The reconciler calls waitForClusterJoin (line 119).
StartJoin ==
    /\ pc \in {"idle"} \cup WaitReturned
    /\ pc' = "getClusterInfos"
    /\ log' = <<>>
    /\ err' = NoError
    /\ UNCHANGED <<cluster, failures>>
    /\ UNCHANGED ensureVars
    /\ UNCHANGED syncVars
    /\ UNCHANGED waitVars

\* lines 120-123: the first topology query; success ends the phase.
GetClusterInfos ==
    /\ pc = "getClusterInfos"
    /\ \E ok \in BOOLEAN :
         /\ log' = Append(log, Call("GetClusterInfos", Res(ok)))
         /\ pc' = IF ok THEN "joinReturned" ELSE "attachNodeToCluster"
    /\ UNCHANGED <<cluster, err, failures>>
    /\ UNCHANGED ensureVars
    /\ UNCHANGED syncVars
    /\ UNCHANGED waitVars

\* lines 124-128: firstNode is the node of whichever entry the range over
\* the map ctx.clusterInfos.Infos yields first; it stays nil (NoNode) when
\* the map has no entry.
FirstNodes == IF clusterInfos = {} THEN {NoNode} ELSE clusterInfos

\* lines 129-133: the join request goes to firstNode.IPPort().  IPPort is
\* defined outside this file: called on a nil *Node it panics at the
\* dereference or, should it guard its receiver, yields an address that
\* belongs to no node.
AttachNodeToCluster ==
    /\ pc = "attachNodeToCluster"
    /\ \E firstNode \in FirstNodes :
       \E panics \in (IF firstNode = NoNode THEN BOOLEAN ELSE {FALSE}) :
       \E ok \in BOOLEAN :
         IF panics
         THEN /\ pc' = "joinPanicked"
              /\ UNCHANGED <<log, err>>
         ELSE /\ log' = Append(log, NodeCall("AttachNodeToCluster",
                                             firstNode[1], firstNode[2], Res(ok)))
              /\ IF ok
                 THEN /\ pc' = "requery"
                      /\ UNCHANGED err
                 ELSE /\ err' = Wrap(Redis, RawError("AttachNodeToCluster", FALSE),
                                     "AttachNodeToCluster")
                      /\ pc' = "joinReturned"
    /\ UNCHANGED <<cluster, failures>>
    /\ UNCHANGED ensureVars
    /\ UNCHANGED syncVars
    /\ UNCHANGED waitVars

\* lines 137-143: the one-second sleep and the second topology query.
RequeryClusterInfos ==
    /\ pc = "requery"
    /\ \E ok \in BOOLEAN :
         /\ log' = log \o <<Call("Sleep", "ok"), Call("GetClusterInfos", Res(ok))>>
         /\ err' = IF ok THEN err
                   ELSE Wrap(Requeue, RawError("GetClusterInfos", FALSE),
                             "wait for cluster join")
    /\ pc' = "joinReturned"
    /\ UNCHANGED <<cluster, failures>>
    /\ UNCHANGED ensureVars
    /\ UNCHANGED syncVars
    /\ UNCHANGED waitVars

\* Any snapshot of the cluster's nodes, the one without a node included.
InitWait ==
    /\ clusterInfos \in SUBSET Nodes
    /\ alloc = <<>>
    /\ cluster \in [Init : {"none"}, Image : {1}, MasterSize : {1},
                    ClusterReplicas : {0}, RestoreSucceeded : {0},
                    MinReplicationFactor : {0}]
    /\ backupStore = [Phase |-> BackupPhaseSucceeded, ClusterImage |-> 1,
                      MasterSize |-> MaxGroups, ClusterReplicas |-> MaxReplicas]
    /\ backup = "nil"
    /\ pc = "idle"
    /\ log = <<>>
    /\ err = NoError
    /\ slots = [n \in Nodes |-> 0]
    /\ member = [n \in Nodes |-> FALSE]
    /\ pool = {}
    /\ resources = {}
    /\ plan = NoPlan
    /\ loop = NoLoop
    /\ refused = NoNode
    /\ failures = 0

NextWait ==
    \/ StartWaitPodReady
    \/ FixTerminatingPods
    \/ CheckRedisNodeNum
    \/ StartJoin
    \/ GetClusterInfos
    \/ AttachNodeToCluster
    \/ RequeryClusterInfos

SpecWait == InitWait /\ [][NextWait]_vars

\* --------------------------------------------------------------- AllocSlots
\* The highest slot of the slot space: admin.GetHashMaxSlot().
HashMaxSlot == 16383
TotalSlots == HashMaxSlot + 1

\* The number of slots of the j-th of n new masters, with the extra slot
\* given to the last masters instead of the first.
AllocCountExtraLast(n, j) ==
    (TotalSlots \div n) + (IF j > n - (TotalSlots % n) THEN 1 ELSE 0)

\* The number of slots AllocSlots gives the j-th of n new masters:
\* floor(total/n), and one more for the first (total mod n) masters.
AllocCount(n, j) ==
    (TotalSlots \div n) + (IF j <= TotalSlots % n THEN 1 ELSE 0)

\* The bootstrap branch calls AllocSlots for the new masters (line 172).
StartAlloc ==
    /\ pc \in {"idle", "allocReturned"}
    /\ pc' = "allocating"
    /\ alloc' = <<>>
    /\ log' = <<Call("AllocSlots", "ok")>>
    /\ UNCHANGED <<cluster, err, failures, clusterInfos>>
    /\ UNCHANGED ensureVars
    /\ UNCHANGED syncVars

\* AllocSlots hands the next master, in master order, the contiguous range
\* that starts where the previous master's range ended.
AllocSlotsToMaster ==
    /\ pc = "allocating"
    /\ LET j == Len(alloc) + 1
           first == IF alloc = <<>> THEN 0 ELSE alloc[Len(alloc)].to + 1
       IN /\ alloc' = Append(alloc, [from |-> first,
                                     to |-> first + AllocCount(cluster.MasterSize, j) - 1])
          /\ pc' = IF j = cluster.MasterSize THEN "allocReturned" ELSE "allocating"
    /\ UNCHANGED <<cluster, log, err, failures, clusterInfos>>
    /\ UNCHANGED ensureVars
    /\ UNCHANGED syncVars

\* A bootstrap for any number of new masters.
InitAlloc ==
    /\ cluster \in [Init : {"none"}, Image : {1}, MasterSize : 1 .. MaxAllocMasters,
                    ClusterReplicas : {0}, RestoreSucceeded : {0},
                    MinReplicationFactor : {0}]
    /\ alloc = <<>>
    /\ clusterInfos = {}
    /\ backupStore = [Phase |-> BackupPhaseSucceeded, ClusterImage |-> 1,
                      MasterSize |-> MaxGroups, ClusterReplicas |-> MaxReplicas]
    /\ backup = "nil"
    /\ pc = "idle"
    /\ log = <<>>
    /\ err = NoError
    /\ slots = [n \in Nodes |-> 0]
    /\ member = [n \in Nodes |-> FALSE]
    /\ pool = {}
    /\ resources = {}
    /\ plan = NoPlan
    /\ loop = NoLoop
    /\ refused = NoNode
    /\ failures = 0

NextAlloc ==
    \/ StartAlloc
    \/ AllocSlotsToMaster

SpecAlloc == InitAlloc /\ [][NextAlloc]_vars

\* ------------------------------------------------------------------ claims
Range(seq) == {seq[j] : j \in 1 .. Len(seq)}

DeleteOps ==
    {"DeleteStatefulSetByName", "DeleteServiceByName",
     "DeletePodDisruptionBudgetByName", "DeletePvcByLabels"}

RetireOps == {"ForgetNode"} \cup DeleteOps

\* scalingDown has been called in the current tick and pass 1 is over.
ScalingDownEntered ==
    /\ pc # "scalingDown"
    /\ \E j \in 1 .. Len(log) : log[j].op = "DispatchSlotToNewMasters" /\ log[j].res = "ok"

\* The groups the current invocation of scalingDown retires.
Retiring == Range(Order)

\* A node of group g holds slots in the snapshot scalingDown was given.
HoldsSlots(g) == \E k \in 1 .. Len(plan.nodes[g]) : plan.nodes[g][k].Slots > 0

\* The invocation got past the lookup of group g.
Reached(g) ==
    \E j \in 1 .. Len(log) :
        log[j].op = "GetStatefulSet" /\ log[j].g = g /\ log[j].res = "ok"

NothingRetiredOf(g) ==
    \A j \in 1 .. Len(log) : log[j].g = g => log[j].op \notin RetireOps

\* C1 (as claimed): whenever a node of a retiring group holds slots, in any
\* order of the group's node list, scalingDown issues no forget-node request
\* for any node of that group and deletes none of its resources, and the
\* invocation that reaches the group returns a Protocol-kind error.
C1_ScaleDownGuard ==
    \A g \in Retiring :
        (ScalingDownEntered /\ HoldsSlots(g)) =>
            /\ NothingRetiredOf(g)
            /\ (pc = "syncReturned" /\ Reached(g)) => err.kinds = <<Redis>>

\* The calls a branch may issue.
BranchOps(branch) ==
    {"newRedisCluster", "DispatchMasters"} \cup
    CASE branch = "create" -> {"PlaceSlaves", "AttachingSlavesToMaster", "AllocSlots"}
      [] branch = "scaleUp" -> {"PlaceSlaves", "AttachingSlavesToMaster", "RebalancedCluster"}
      [] branch = "scaleSlave" -> {"PlaceSlaves", "AttachingSlavesToMaster"}
      [] branch = "scaleDown" -> {"DispatchSlotToNewMasters", "Connections.Remove",
                                  "GetStatefulSet", "waitPodTerminating"} \cup RetireOps
      [] OTHER -> {}

\* C2 (as claimed): the scale-replicas-only branch is taken only when the
\* target master count equals the current one, and a tick whose current
\* master count exceeds the target takes the scale-down branch whatever the
\* replication factor.
C2_PriorityTable ==
    plan.branch # "unset" =>
        /\ plan.branch = "scaleSlave" =>
              (plan.expect = plan.cur /\ plan.rf < plan.replicas)
        /\ (plan.cur > plan.expect /\ plan.cur # 0) => plan.branch = "scaleDown"

\* C2 (amended): a tick takes at most one branch, the first whose condition
\* holds in the order bootstrap, scale-up, scale-replicas, scale-down, where
\* the scale-replicas condition is only that the observed replication factor
\* is below the desired one; a tick whose current master count exceeds the
\* target scales down exactly when the replication factor is not below the
\* desired one and scales replicas only otherwise.
C2_BranchPriority ==
    plan.branch # "unset" =>
        /\ plan.branch = "create" <=> plan.cur = 0
        /\ plan.branch = "scaleUp" <=> (plan.cur # 0 /\ plan.new > plan.cur)
        /\ plan.branch = "scaleSlave" <=>
              (plan.cur # 0 /\ plan.new <= plan.cur /\ plan.rf < plan.replicas)
        /\ plan.branch = "scaleDown" <=>
              (plan.cur # 0 /\ plan.new <= plan.cur /\ plan.rf >= plan.replicas
               /\ plan.cur > plan.expect)
        /\ (plan.cur > plan.expect /\ plan.cur # 0) =>
              /\ plan.branch = "scaleDown" <=> plan.rf >= plan.replicas
              /\ plan.branch = "scaleSlave" <=> plan.rf < plan.replicas
        /\ \A j \in 1 .. Len(log) : log[j].op \in BranchOps(plan.branch)

\* A tick with more current masters than the target and too few replicas has
\* run the scale-replicas branch to its end.
C2_Witness ==
    /\ plan.branch = "scaleSlave"
    /\ plan.cur > plan.expect
    /\ pc = "syncReturned"
    /\ err.nil
    /\ Issued("AttachingSlavesToMaster")

\* C3 (as claimed): every error a phase returns carries exactly one kind.
C3_ExactlyOneKind ==
    ~err.nil => (Len(err.kinds) = 1 /\ err.kinds[1] \in Kinds)

\* C4: when initialization is requested and no backup source is named,
\* ensureCluster returns a StopRetry-kind error and has issued no call at
\* all: no ensure step, no backup fetch, no update wait.
C4_NoSourceStopsRetry ==
    cluster.Init = "nosource" =>
        /\ log = <<>>
        /\ pc \in {"idle", "validate", "ensureReturned"}
        /\ pc = "ensureReturned" => err.kinds = <<StopRetry>>

C4_Witness ==
    /\ cluster.Init = "nosource"
    /\ pc = "ensureReturned"
    /\ ~err.nil

\* C5 (as claimed): the error ensureCluster returns when the backup has not
\* reached the succeeded phase is not of the StopRetry kind.
C5_RunningBackupRetryable ==
    (pc = "ensureReturned" /\ ~err.nil /\ err.steps[1] = "backup is still running")
        => StopRetry \notin Range(err.kinds)

Deleted(g) == <<"sts", g>> \notin resources

\* C6 (as claimed): once the compute-unit resource of group i is deleted,
\* the compute-unit resource of every group of higher ordinal is deleted.
C6_NeverFromTheMiddle ==
    \A i \in Groups : \A j \in Groups : (i < j /\ Deleted(i)) => Deleted(j)

\* C6 (amended): within one invocation of scalingDown the deletion of the
\* compute-unit resource of group i, a group at or above the target, is
\* issued only after that deletion was issued for every higher ordinal up
\* to the current master count - 1.
C6_DescendingDeletion ==
    \A x \in 1 .. Len(log) :
        log[x].op = "DeleteStatefulSetByName" =>
            /\ log[x].g >= plan.expect
            /\ \A j \in Groups :
                 (j > log[x].g /\ j <= plan.cur - 1) =>
                    \E y \in 1 .. (x - 1) :
                        log[y].op = "DeleteStatefulSetByName" /\ log[y].g = j

\* Two groups had their compute-unit deletion issued in one invocation.
C6_Witness ==
    \E x \in 1 .. Len(log) : \E y \in 1 .. Len(log) :
        /\ x < y
        /\ log[x].op = "DeleteStatefulSetByName"
        /\ log[y].op = "DeleteStatefulSetByName"
        /\ log[x].g > log[y].g

\* C7: every forget-node request and every deletion of an invocation of
\* scalingDown comes after the pool removal of every node of every retiring
\* group.
C7_PoolRemovalFirst ==
    \A x \in 1 .. Len(log) :
        log[x].op \in RetireOps =>
            \A g \in Retiring : \A k \in 1 .. Len(plan.nodes[g]) :
                \E y \in 1 .. (x - 1) :
                    /\ log[y].op = "Connections.Remove"
                    /\ log[y].g = g
                    /\ log[y].k = plan.nodes[g][k].ID[2]

\* Two groups with nodes retire and the lower one has a node forgotten.
C7_Witness ==
    /\ Len(Order) >= 2
    /\ \A g \in Retiring : plan.nodes[g] # <<>>
    /\ \E x \in 1 .. Len(log) :
          log[x].op = "ForgetNode" /\ log[x].res = "ok" /\ log[x].g = plan.expect

\* Every group at or above the target has its nodes forgotten and its
\* resources deleted.
AllRetired ==
    \A g \in Groups :
        g >= cluster.MasterSize =>
            /\ \A k \in 1 .. NodesPerGroup : ~member[<<g, k>>]
            /\ \A kind \in ResourceKinds : <<kind, g>> \notin resources

\* C8 (as claimed): once the node that made scalingDown refuse has been
\* emptied, every group at or above the target eventually has its nodes
\* forgotten and its resources deleted.
C8_RetirementResumes ==
    (refused # NoNode /\ slots[refused] = 0) ~> AllRetired

\* The calls of ensureCluster's steps in their order.
EnsureRank(op) ==
    CASE op = "EnsureRedisConfigMap" -> 1
      [] op = "EnsureRedisStatefulsets" -> 2
      [] op = "waitStatefulSetUpdating" -> 3
      [] op = "EnsureRedisHeadLessSvcs" -> 4
      [] op = "EnsureRedisSvc" -> 5
      [] op = "EnsureRedisOSMSecret" -> 6
      [] OTHER -> 0

EnsureLog == SelectSeq(log, LAMBDA c : EnsureRank(c.op) > 0)

\* C9: the ensure steps run in the order config, compute units, (update
\* wait), headless endpoint, client endpoint, credential; a step runs only
\* after every earlier one succeeded; the update wait runs exactly when the
\* compute-unit step reported an update; after a failed wait nothing runs.
C9_EnsureOrder ==
    \A j \in 1 .. Len(EnsureLog) :
        IF j = 1
        THEN EnsureRank(EnsureLog[1].op) = 1
        ELSE /\ EnsureLog[j - 1].res # "error"
             /\ EnsureRank(EnsureLog[j].op) =
                   IF EnsureRank(EnsureLog[j - 1].op) = 2
                   THEN (IF EnsureLog[j - 1].res = "updated" THEN 3 ELSE 4)
                   ELSE EnsureRank(EnsureLog[j - 1].op) + 1

\* ensureCluster ran all its steps, the update wait included.
C9_Witness ==
    /\ pc = "ensureReturned"
    /\ err.nil
    /\ Len(EnsureLog) = 6

\* C10: a tick whose current master count equals the target (not zero) and
\* whose observed replication factor is below the desired one issues only
\* replica placement and replica attachment.
C10_ReplicasOnly ==
    (plan.branch # "unset" /\ plan.cur = plan.expect /\ plan.cur # 0
     /\ plan.rf < plan.replicas) =>
        /\ pc \in {"placeSlaves", "attachSlaves", "syncReturned"}
        /\ \A j \in 1 .. Len(log) :
              log[j].op \in {"newRedisCluster", "DispatchMasters",
                             "PlaceSlaves", "AttachingSlavesToMaster"}

C10_Witness ==
    /\ plan.branch # "unset"
    /\ plan.cur = plan.expect
    /\ plan.cur # 0
    /\ plan.rf < plan.replicas
    /\ pc = "syncReturned"
    /\ err.nil
    /\ \E j \in 1 .. Len(log) : log[j].op = "AttachingSlavesToMaster" /\ log[j].res = "ok"

\* The calls of the current invocation with operation op.
CallsOf(op) == SelectSeq(log, LAMBDA c : c.op = op)

\* waitForClusterJoin is over.
JoinOver == pc \in {"joinReturned", "joinPanicked"}

\* C11 (as claimed): waitForClusterJoin is a no-op when the first topology
\* query succeeds; otherwise it issues exactly one join request, then
\* exactly one re-query after the delay; it returns a Protocol-kind error
\* if the join fails (without re-querying), a Requeue-kind error if the
\* re-query fails and success if the re-query succeeds.
C11_JoinProtocol ==
    (JoinOver /\ log # <<>>) =>
        IF log[1].res = "ok"
        THEN log = <<Call("GetClusterInfos", "ok")>> /\ err.nil
        ELSE /\ Len(CallsOf("AttachNodeToCluster")) = 1
             /\ log[2].op = "AttachNodeToCluster"
             /\ IF log[2].res = "error"
                THEN Len(log) = 2 /\ err.kinds = <<Redis>>
                ELSE /\ Len(log) = 4
                     /\ log[3] = Call("Sleep", "ok")
                     /\ log[4].op = "GetClusterInfos"
                     /\ IF log[4].res = "error"
                        THEN err.kinds = <<Requeue>>
                        ELSE err.nil

\* The steps scalingDown runs for a group once its nodes are forgotten.
CleanupOps == DeleteOps \cup {"waitPodTerminating"}

\* scalingDown was entered with every retiring node empty and, so far,
\* every lookup and every forget-node request succeeded.
CleanRetirement ==
    /\ ScalingDownEntered
    /\ \A g \in Retiring : ~HoldsSlots(g)
    /\ \A j \in 1 .. Len(log) :
          log[j].op \in {"GetStatefulSet", "ForgetNode"} => log[j].res = "ok"

\* C12: when the nodes of the retiring groups are all empty and all
\* forgotten, a failed deletion or a timed-out termination wait changes
\* nothing: scalingDown carries no error, and when it returns it has issued
\* each of the four deletions and the wait exactly once for every retiring
\* group, whatever their results.
C12_BestEffortDeletion ==
    CleanRetirement =>
        /\ err.nil
        /\ pc = "syncReturned" =>
              \A g \in Retiring : \A op \in CleanupOps :
                  Cardinality({j \in 1 .. Len(log) : log[j].op = op /\ log[j].g = g}) = 1

\* Two groups retired; a deletion of the higher one failed, the lower one
\* was still processed and scalingDown returned success.
C12_Witness ==
    /\ CleanRetirement
    /\ pc = "syncReturned"
    /\ err.nil
    /\ Len(Order) >= 2
    /\ \E x \in 1 .. Len(log) : \E y \in 1 .. Len(log) :
          /\ x < y
          /\ log[x].op \in DeleteOps
          /\ log[x].res = "error"
          /\ log[x].g = Order[1]
          /\ log[y].op = "DeletePvcByLabels"
          /\ log[y].g = Order[Len(Order)]

\* The step in which validate succeeds for a cluster initialized from a
\* backup.
ValidatedFromBackup ==
    /\ pc = "validate"
    /\ pc' = "fetchBackup"
    /\ cluster.Init = "source"

\* C13 (as claimed): on a successful validate with initialization from a
\* backup the image and the master count become the backup's, and the
\* replica count becomes 0 while the restore counter is not positive and the
\* backup's once it is, whatever the fields held before.
C13_OverwrittenFromBackup ==
    [][ValidatedFromBackup =>
          /\ cluster'.Image = backupStore.ClusterImage
          /\ cluster'.MasterSize = backupStore.MasterSize
          /\ cluster'.ClusterReplicas =
                IF cluster.RestoreSucceeded <= 0 THEN 0 ELSE backupStore.ClusterReplicas]_vars

\* C13 (amended): on a successful validate with initialization from a
\* backup the master count becomes the backup's and the replica count
\* becomes 0 while the restore counter is not positive and the backup's once
\* it is, whatever they held before; the image becomes the backup's only
\* when the spec named none and is left as it was otherwise.
C13_ImageKeptWhenSet ==
    [][ValidatedFromBackup =>
          /\ cluster'.Image =
                IF cluster.Image = 0 THEN backupStore.ClusterImage ELSE cluster.Image
          /\ cluster'.MasterSize = backupStore.MasterSize
          /\ cluster'.ClusterReplicas =
                IF cluster.RestoreSucceeded <= 0 THEN 0 ELSE backupStore.ClusterReplicas]_vars

\* validate succeeded for a spec that named an image other than the
\* backup's, after a restore had made progress.
C13_Witness ==
    /\ pc = "fetchBackup"
    /\ cluster.Init = "source"
    /\ cluster.Image # backupStore.ClusterImage
    /\ cluster.MasterSize = backupStore.MasterSize
    /\ cluster.RestoreSucceeded > 0
    /\ cluster.ClusterReplicas = backupStore.ClusterReplicas

\* The number of slots of the j-th range handed out.
AllocSize(j) == alloc[j].to - alloc[j].from + 1

\* C14: when AllocSlots has returned for n new masters, the ranges start at
\* slot 0, end at the last slot and follow one another without gap or
\* overlap in master order (every slot belongs to exactly one master), each
\* master has floor(total/n) or floor(total/n)+1 slots, exactly the first
\* (total mod n) masters have the larger count, and for n = 3 the counts
\* are 5462, 5461, 5461.
C14_ExactAllocation ==
    pc = "allocReturned" =>
        LET n == cluster.MasterSize
            q == TotalSlots \div n
            r == TotalSlots % n
        IN /\ Len(alloc) = n
           /\ alloc[1].from = 0
           /\ alloc[n].to = TotalSlots - 1
           /\ \A j \in 1 .. (n - 1) : alloc[j + 1].from = alloc[j].to + 1
           /\ \A j \in 1 .. n : AllocSize(j) \in {q, q + 1}
           /\ \A j \in 1 .. n : AllocSize(j) = q + 1 <=> j <= r
           /\ Cardinality({j \in 1 .. n : AllocSize(j) = q + 1}) = r
           /\ n = 3 => [j \in 1 .. 3 |-> AllocSize(j)] = <<5462, 5461, 5461>>

\* The slot space was allocated to three new masters.
C14_Witness ==
    /\ pc = "allocReturned"
    /\ cluster.MasterSize = 3
    /\ AllocSize(1) = 5462
    /\ alloc[3].to = HashMaxSlot

\* C15: waitPodReady calls the healer first and the node-count checker only
\* after the healer succeeded; it returns an Infra-kind error when the
\* healer fails, a Requeue-kind error when the checker fails, and success
\* only when both succeeded.
C15_HealerThenChecker ==
    /\ \A x \in 1 .. Len(log) :
          /\ log[x].op = "FixTerminatingPods" => x = 1
          /\ log[x].op = "CheckRedisNodeNum" =>
                (x = 2 /\ log[1] = Call("FixTerminatingPods", "ok"))
    /\ pc = "readyReturned" =>
          /\ log[1].op = "FixTerminatingPods"
          /\ IF log[1].res = "error"
             THEN Len(log) = 1 /\ err.kinds = <<Kubernetes>>
             ELSE /\ Len(log) = 2
                  /\ log[2].op = "CheckRedisNodeNum"
                  /\ IF log[2].res = "error"
                     THEN err.kinds = <<Requeue>>
                     ELSE err.nil

\* The healer succeeded, the checker failed and waitPodReady returned.
C15_Witness ==
    /\ pc = "readyReturned"
    /\ log = <<Call("FixTerminatingPods", "ok"), Call("CheckRedisNodeNum", "error")>>
    /\ ~err.nil

\* The calls scalingDown issues.
ScalingDownOps ==
    {"Connections.Remove", "GetStatefulSet", "waitPodTerminating"} \cup RetireOps

\* The positions of the execution inside scalingDown.
ScalingDownPcs ==
    {"scalingDown", "getStatefulSet", "forgetNode", "deleteStatefulSet",
     "deleteService", "deletePdb", "deletePvc", "waitPodTerminating"}

\* C16: scalingDown starts, and every pool removal, forget-node request and
\* deletion is issued, only after DispatchSlotToNewMasters returned success
\* in the same tick; when the redistribution fails it is the last call of
\* the tick, the tick returns its error as it is, and no pool removal,
\* forget or deletion is performed.
C16_RedistributionFirst ==
    /\ pc \in ScalingDownPcs =>
          \E y \in 1 .. Len(log) :
              log[y] = Call("DispatchSlotToNewMasters", "ok")
    /\ \A x \in 1 .. Len(log) :
          /\ log[x].op \in ScalingDownOps =>
                \E y \in 1 .. (x - 1) :
                    log[y] = Call("DispatchSlotToNewMasters", "ok")
          /\ log[x] = Call("DispatchSlotToNewMasters", "error") =>
                /\ x = Len(log)
                /\ pc = "syncReturned"
                /\ err = RawError("DispatchSlotToNewMasters", FALSE)
                /\ \A y \in 1 .. Len(log) : log[y].op \notin ScalingDownOps

\* The redistribution of a scale-down tick failed and the tick returned.
C16_Witness ==
    /\ plan.branch = "scaleDown"
    /\ pc = "syncReturned"
    /\ ~err.nil
    /\ log[Len(log)] = Call("DispatchSlotToNewMasters", "error")

\* The calls of scalingDown that change the pool, the membership or the
\* infrastructure.
TouchOps == {"Connections.Remove"} \cup RetireOps

\* C17: no call of scalingDown that removes a connection, forgets a node or
\* deletes a resource is about a group below the target master count, and
\* every such group keeps the pooled connections, the membership and the
\* four resources of all its nodes, through every invocation and for every
\* current master count.
C17_OnlyRetiringGroups ==
    /\ \A x \in 1 .. Len(log) :
          log[x].op \in TouchOps => log[x].g >= cluster.MasterSize
    /\ \A g \in Groups :
          g < cluster.MasterSize =>
              /\ \A k \in 1 .. NodesPerGroup : <<g, k>> \in pool /\ member[<<g, k>>]
              /\ \A kind \in ResourceKinds : <<kind, g>> \in resources

\* scalingDown retired the group at the target ordinal and returned.
C17_Witness ==
    /\ ScalingDownEntered
    /\ pc = "syncReturned"
    /\ err.nil
    /\ \E x \in 1 .. Len(log) :
          log[x].op = "DeletePvcByLabels" /\ log[x].g = cluster.MasterSize
    /\ \A kind \in ResourceKinds : <<kind, cluster.MasterSize>> \notin resources

\* The tick found the cluster converged: as many current masters as the
\* target, not zero, and a replication factor at least the desired one.
Converged ==
    /\ plan.branch # "unset"
    /\ plan.cur # 0
    /\ plan.cur = plan.expect
    /\ plan.rf >= plan.replicas

\* The branch a tick started now would take.
NextBranch ==
    Branch(Cardinality(GetCurrentMasters),
           Cardinality(GetNewMasters(GetStatefulsetNodes, cluster.MasterSize)),
           cluster)

\* C18: a tick that finds the cluster converged has returned success
\* having issued nothing but the construction of its topology context (no
\* placement, attach, slot, pool-removal, forget or deletion call), and it
\* leaves the cluster such that a further tick selects no branch either.
C18_ConvergedFixedPoint ==
    Converged =>
        /\ pc = "syncReturned"
        /\ err.nil
        /\ log = <<Call("newRedisCluster", "ok"), Call("DispatchMasters", "ok")>>
        /\ ~DispatchMastersFails(GetStatefulsetNodes, cluster.MasterSize)
        /\ NextBranch = "none"

\* A tick found a cluster of at least two masters converged and returned.
C18_Witness ==
    /\ Converged
    /\ pc = "syncReturned"
    /\ err.nil
    /\ plan.cur >= 2
    /\ Len(log) = 2

\* No deletion was issued for group g or a lower ordinal.
NothingDeletedFrom(g) ==
    \A y \in 1 .. Len(log) : log[y].op \in DeleteOps => log[y].g > g

\* C19: a deletion for a group is issued only after the lookup of the
\* group's compute-unit resource succeeded and forget-node succeeded for
\* every node the snapshot lists for the group; a failed lookup or a failed
\* forget-node request is the last call of the invocation, which returns an
\* Infra-kind error for the lookup and a Protocol-kind error for the
\* forget, with no deletion issued for that group or any lower ordinal.
C19_DeleteAfterForget ==
    \A x \in 1 .. Len(log) :
        /\ log[x].op \in DeleteOps =>
              /\ \E y \in 1 .. (x - 1) :
                    log[y] = GroupCall("GetStatefulSet", log[x].g, "ok")
              /\ \A k \in 1 .. Len(plan.nodes[log[x].g]) :
                    \E z \in 1 .. (x - 1) :
                        log[z] = NodeCall("ForgetNode", log[x].g,
                                          plan.nodes[log[x].g][k].ID[2], "ok")
        /\ (log[x].op = "GetStatefulSet" /\ log[x].res = "error") =>
              /\ x = Len(log)
              /\ pc = "syncReturned"
              /\ err.kinds = <<Kubernetes>>
              /\ NothingDeletedFrom(log[x].g)
        /\ (log[x].op = "ForgetNode" /\ log[x].res = "error") =>
              /\ x = Len(log)
              /\ pc = "syncReturned"
              /\ err.kinds = <<Redis>>
              /\ NothingDeletedFrom(log[x].g)

\* The higher of two retiring groups was deleted, then a forget-node
\* request of the lower one failed and scalingDown returned.
C19_Witness ==
    /\ Len(Order) >= 2
    /\ pc = "syncReturned"
    /\ log[Len(log)].op = "ForgetNode"
    /\ log[Len(log)].res = "error"
    /\ log[Len(log)].g = Order[2]
    /\ \E y \in 1 .. Len(log) :
          log[y].op = "DeleteStatefulSetByName" /\ log[y].g = Order[1]

\* C20 (as claimed): waitForClusterJoin never ends without a result, the
\* result it returns is success or an error of exactly one kind, and every
\* join request it sends goes to a node of the snapshot, for every
\* snapshot, the empty one included.
C20_JoinTargetsSnapshot ==
    /\ pc # "joinPanicked"
    /\ pc = "joinReturned" => (err.nil \/ (Len(err.kinds) = 1 /\ err.kinds[1] \in Kinds))
    /\ \A x \in 1 .. Len(log) :
          log[x].op = "AttachNodeToCluster" => <<log[x].g, log[x].k>> \in clusterInfos

====
